---- MODULE Spec2Model ----
(***************************************************************************)
(* A model of the pr-throttler GitHub Action: one invocation of run()      *)
(* (main.ts, here src/unnamed/part_001) together with the helpers it       *)
(* calls in src/src/config.ts, src/src/exclusions.ts and graphql.ts        *)
(* (src/unnamed/part_002).                                                 *)
(*                                                                         *)
(* Text that the code inspects character by character (logins, the user    *)
(* type, team slugs) is a tuple of one-character strings; text that is     *)
(* only passed around is a TLA+ string.  The empty tuple stands for both   *)
(* ""  and undefined, which JavaScript treats alike in the tests the code  *)
(* makes (!author, authorType && ..., x || default).                       *)
(***************************************************************************)
EXTENDS Integers, Sequences, FiniteSets, TLC

VARIABLES
    pc,           \* position of run(): the await it is suspended at, or "done"
    policyJson,   \* the raw `policy` input, as JSON.parse sees it
    inputs,       \* the Inputs record parseInputs() returns
    ctx,          \* github.context: eventName, payload.action, payload.pull_request
    teamIdx,      \* index into inputs.excludeTeams of the for-loop of isUserExcludedByTeams
    openCount,    \* counts.openCount  (raw search count)
    mergedCount,  \* counts.mergedCount
    effectiveOpen,
    allowedOpen,
    excluded,     \* what isUserExcludedByTeams returned: "unset" until it returns
    calls,        \* every external call attempted so far, in order, with its outcome
    outputs,      \* core.setOutput: name -> the values set, in order
    failed        \* core.setFailed: the messages set, in order

vars == <<pc, policyJson, inputs, ctx, teamIdx, openCount, mergedCount,
          effectiveOpen, allowedOpen, excluded, calls, outputs, failed>>

(***************************************************************************)
(* Bounds of the model.                                                    *)
(***************************************************************************)
MaxOpen == 3      \* raw open count returned by the search: 0..MaxOpen
MaxMerged == 3    \* merged count returned by the search: 0..MaxMerged
MaxRules == 3     \* longest policy table of the policy specification
MaxTeams == 3     \* longest excludeTeams list of the team-scan specification

(***************************************************************************)
(* Strings as tuples of characters.                                        *)
(***************************************************************************)
\* String.prototype.toLowerCase on one character (the letters the model uses)
LowerChar(c) ==
    CASE c = "A" -> "a" [] c = "B" -> "b" [] c = "L" -> "l" [] c = "O" -> "o"
      [] c = "T" -> "t" [] c = "U" -> "u" [] c = "S" -> "s" [] c = "E" -> "e"
      [] c = "R" -> "r" [] OTHER -> c

toLowerCase(s) == [i \in DOMAIN s |-> LowerChar(s[i])]

\* /\[bot\]$/i.test(s)
BotSuffix == <<"[", "b", "o", "t", "]">>
EndsWithBot(s) ==
    /\ Len(s) >= Len(BotSuffix)
    /\ toLowerCase(SubSeq(s, Len(s) - Len(BotSuffix) + 1, Len(s))) = BotSuffix

\* String.prototype.trim
RECURSIVE TrimLeft(_)
TrimLeft(s) == IF s # <<>> /\ Head(s) = " " THEN TrimLeft(Tail(s)) ELSE s
RECURSIVE TrimRight(_)
TrimRight(s) ==
    IF s # <<>> /\ s[Len(s)] = " " THEN TrimRight(SubSeq(s, 1, Len(s) - 1)) ELSE s
trim(s) == TrimRight(TrimLeft(s))

\* String.prototype.split("/"): the pieces between the separators
RECURSIVE SplitFrom(_, _, _)
SplitFrom(s, i, cur) ==
    IF i > Len(s) THEN <<cur>>
    ELSE IF s[i] = "/" THEN <<cur>> \o SplitFrom(s, i + 1, <<>>)
    ELSE SplitFrom(s, i + 1, Append(cur, s[i]))
split(s) == SplitFrom(s, 1, <<>>)

\* Array.prototype.filter(Boolean) on strings: drops the empty ones
RECURSIVE filterNonEmpty(_)
filterNonEmpty(xs) ==
    IF xs = <<>> THEN <<>>
    ELSE IF Head(xs) = <<>> THEN filterNonEmpty(Tail(xs))
    ELSE <<Head(xs)>> \o filterNonEmpty(Tail(xs))

\* parseTeamSlug: <<org, team>>, or <<>> for null
parseTeamSlug(slug) ==
    LET pieces == split(slug)
        parts == filterNonEmpty([i \in DOMAIN pieces |-> trim(pieces[i])])
    IN  IF Len(parts) # 2 THEN <<>> ELSE <<parts[1], parts[2]>>

\* isUserExcludedByList: case-insensitive membership
isUserExcludedByList(excludeUsers, username) ==
    LET set == {toLowerCase(excludeUsers[i]) : i \in DOMAIN excludeUsers}
    IN  toLowerCase(username) \in set

\* String(n) for an integer
Digit(d) ==
    CASE d = 0 -> "0" [] d = 1 -> "1" [] d = 2 -> "2" [] d = 3 -> "3" [] d = 4 -> "4"
      [] d = 5 -> "5" [] d = 6 -> "6" [] d = 7 -> "7" [] d = 8 -> "8" [] d = 9 -> "9"
RECURSIVE NatToString(_)
NatToString(n) == IF n < 10 THEN Digit(n) ELSE NatToString(n \div 10) \o Digit(n % 10)
String(n) == IF n < 0 THEN "-" \o NatToString(-n) ELSE NatToString(n)

(***************************************************************************)
(* config.ts                                                               *)
(***************************************************************************)
\* A JSON value of a rule's field: a number, or something typeof calls otherwise
JNum(n) == [type |-> "number", num |-> n]
JStr == [type |-> "string", num |-> 0]
JRule(m, a) == [minMerged |-> JNum(m), allowedOpen |-> JNum(a)]

\* a parse that checks only that the policy is an array
PolicyParseErrorArrayOnly(json) ==
    IF json.kind = "syntax_error" THEN "Unexpected token"
    ELSE IF json.kind # "array" THEN "policy must be a JSON array"
    ELSE "ok"

\* The try block of parseInputs: "ok", or the message of the error thrown
PolicyParseError(json) ==
    IF json.kind = "syntax_error" THEN "Unexpected token"
    ELSE IF json.kind # "array" THEN "policy must be a JSON array"
    ELSE LET bad == {i \in DOMAIN json.rules :
                        \/ json.rules[i].allowedOpen.type # "number"
                        \/ json.rules[i].minMerged.type # "number"}
         IN  IF bad = {} THEN "ok"
             ELSE "Invalid policy rule at index "
                    \o String((CHOOSE i \in bad : \A j \in bad : i <= j) - 1)

\* The PolicyRule[] that parseInputs returns when the try block does not throw
ParsedPolicy(json) ==
    [i \in DOMAIN json.rules |->
        [minMerged |-> json.rules[i].minMerged.num,
         allowedOpen |-> json.rules[i].allowedOpen.num]]

\* a sort that puts a rule before the rules of equal minMerged (not stable)
RECURSIVE InsertBeforeEqual(_, _)
InsertBeforeEqual(sorted, rule) ==
    IF sorted = <<>> THEN <<rule>>
    ELSE IF Head(sorted).minMerged - rule.minMerged < 0
         THEN <<Head(sorted)>> \o InsertBeforeEqual(Tail(sorted), rule)
         ELSE <<rule>> \o sorted

\* [...policy].sort((a, b) => a.minMerged - b.minMerged): a stable sort, as
\* Array.prototype.sort is; insertion after the last element not greater
RECURSIVE InsertSorted(_, _)
InsertSorted(sorted, rule) ==
    IF sorted = <<>> THEN <<rule>>
    ELSE IF Head(sorted).minMerged - rule.minMerged <= 0
         THEN <<Head(sorted)>> \o InsertSorted(Tail(sorted), rule)
         ELSE <<rule>> \o sorted
RECURSIVE SortByMinMerged(_)
SortByMinMerged(policy) ==
    IF policy = <<>> THEN <<>>
    ELSE InsertSorted(SortByMinMerged(SubSeq(policy, 1, Len(policy) - 1)),
                      policy[Len(policy)])

\* the for-loop of allowedOpenFromPolicy over sorted[i..], with its break
RECURSIVE SelectRule(_, _, _, _)
SelectRule(sorted, i, selected, m) ==
    IF i > Len(sorted) THEN selected
    ELSE IF m >= sorted[i].minMerged THEN SelectRule(sorted, i + 1, sorted[i], m)
    ELSE selected

\* allowedOpenFromPolicy with `selected` starting at policy[0], not sorted[0]
allowedOpenFirstOfInput(policy, m) ==
    IF Len(policy) = 0 THEN 1
    ELSE SelectRule(SortByMinMerged(policy), 1, policy[1], m).allowedOpen

allowedOpenFromPolicy(policy, m) ==
    IF Len(policy) = 0 THEN 1
    ELSE LET sorted == SortByMinMerged(policy)
         IN  SelectRule(sorted, 1, sorted[1], m).allowedOpen

(***************************************************************************)
(* main.ts: renderTemplate                                                 *)
(***************************************************************************)
\* A template is a tuple of tokens; a token is a piece of text or "{word}".
\* The word of a "{word}" token, "" for plain text (the regex /\{(\w+)\}/g)
PlaceholderKey(tok) ==
    CASE tok = "{author}" -> "author"
      [] tok = "{openCount}" -> "openCount"
      [] tok = "{allowedOpen}" -> "allowedOpen"
      [] tok = "{mergedCount}" -> "mergedCount"
      [] tok = "{reason}" -> "reason"
      [] OTHER -> ""

RECURSIVE Join(_)
Join(strs) == IF strs = <<>> THEN "" ELSE Head(strs) \o Join(Tail(strs))

\* String(vars[k] ?? "")
TemplateValue(k, author, open, allowed, merged) ==
    CASE k = "author" -> Join(author)
      [] k = "openCount" -> String(open)
      [] k = "allowedOpen" -> String(allowed)
      [] k = "mergedCount" -> String(merged)
      [] OTHER -> ""

renderTemplate(template, author, open, allowed, merged) ==
    Join([i \in DOMAIN template |->
            IF PlaceholderKey(template[i]) = "" THEN template[i]
            ELSE TemplateValue(PlaceholderKey(template[i]), author, open, allowed, merged)])

(***************************************************************************)
(* The values the model draws the environment from.                        *)
(***************************************************************************)
Al == <<"A", "l">>
XBot == <<"x", "[", "B", "o", "t", "]">>
TypeUser == <<"U", "s", "e", "r">>
TypeBot == <<"B", "o", "t">>

\* pull_request.user of the payload: absent, a user, a user of type Bot, an app login
UserPayloads ==
    { [login |-> <<>>, type |-> <<>>],
      [login |-> Al, type |-> TypeUser],
      [login |-> Al, type |-> TypeBot],
      [login |-> XBot, type |-> TypeUser] }

ExcludeUsersLists == { <<>>, << <<"a", "L">> >> }

SlugOT == <<"o", "/", "t">>
SlugOU == <<"o", "/", " ", "u">>
SlugBad == <<"o">>
Slugs == {SlugOT, SlugOU, SlugBad}
TeamListsOfRun == {<<>>, <<SlugOT>>, <<SlugBad, SlugOU>>}

SeqsUpTo(S, n) == UNION {[1..k -> S] : k \in 0..n}

CloseTemplate == <<"{author}", ": ", "{openCount}", "/", "{allowedOpen}", " m=", "{mergedCount}", "{reason}">>
BackTemplate == <<"draft: ", "{openCount}", "/", "{allowedOpen}">>
Label == <<"l">>

PolicyExample == <<JRule(0, 1), JRule(1, 2), JRule(3, 3)>>
PolicyUnsorted == <<JRule(2, 2), JRule(0, 0)>>
JArray(rules) == [kind |-> "array", rules |-> rules]
JObject == [kind |-> "object", rules |-> <<>>]

ErrMsg == "HttpError"
OutputNames == {"decision", "openCount", "allowedOpen", "mergedCount"}
Decisions == {"ok", "skipped", "closed", "reverted_to_draft"}

\* the Inputs record, but for its policy, which parseInputs sets
ConfigInputs(teamLists) ==
    [ policy : {<<>>},
      closeComment : {CloseTemplate},
      excludeUsers : ExcludeUsersLists,
      excludeTeams : teamLists,
      countDrafts : BOOLEAN,
      skipOnFailure : BOOLEAN,
      revertToDraftOnReady : BOOLEAN,
      backToDraftComment : {<<>>, BackTemplate},
      labelWhenClosed : {<<>>, Label},
      token : {"", "ghs"} ]

NoPullRequest == [login |-> <<>>, type |-> <<>>, draft |-> FALSE, state |-> ""]

\* github.context: the event name, payload.action and payload.pull_request
Contexts(eventNames, actions, states) ==
    { [eventName |-> e, action |-> a, hasPr |-> FALSE, pr |-> NoPullRequest] :
        e \in eventNames, a \in actions }
    \cup
    { [eventName |-> e, action |-> a, hasPr |-> TRUE,
       pr |-> [login |-> u.login, type |-> u.type, draft |-> d, state |-> s]] :
        e \in eventNames, a \in actions, u \in UserPayloads, d \in BOOLEAN, s \in states }

InitWith(jsons, configs, contexts) ==
    /\ pc = "start"
    /\ policyJson \in jsons
    /\ inputs \in configs
    /\ ctx \in contexts
    /\ teamIdx = 1
    /\ openCount = 0
    /\ mergedCount = 0
    /\ effectiveOpen = 0
    /\ allowedOpen = 0
    /\ excluded = "unset"
    /\ calls = <<>>
    /\ outputs = [n \in OutputNames |-> <<>>]
    /\ failed = <<>>

Init ==
    InitWith({JArray(PolicyExample), JArray(PolicyUnsorted), JObject},
             ConfigInputs(TeamListsOfRun),
             Contexts({"push", "pull_request", "pull_request_target"},
                      {"opened", "ready_for_review", "synchronize"},
                      {"open", "closed"}))

(***************************************************************************)
(* main.ts: run()                                                          *)
(***************************************************************************)
\* a decision that also sets the three numeric outputs
DecideWithCounts(d) ==
    /\ outputs' = [n \in OutputNames |->
                      Append(outputs[n], IF n = "decision" THEN d ELSE "0")]
    /\ pc' = "done"
    /\ failed' = failed

\* core.setOutput("decision", d); return
Decide(d) ==
    /\ outputs' = [outputs EXCEPT !["decision"] = Append(@, d)]
    /\ pc' = "done"
    /\ failed' = failed

\* a catch that also reports a decision
FatalWithDecision(msg) ==
    /\ failed' = Append(failed, msg)
    /\ pc' = "done"
    /\ outputs' = [outputs EXCEPT !["decision"] = Append(@, "skipped")]

\* an error reaching the catch of run(): core.setFailed
Fatal(msg) ==
    /\ failed' = Append(failed, msg)
    /\ pc' = "done"
    /\ outputs' = outputs

Goto(p) ==
    /\ pc' = p
    /\ outputs' = outputs
    /\ failed' = failed

\* a decision ends the run; anything else is the await the run goes on to
Proceed(r) == IF r \in Decisions THEN Decide(r) ELSE Goto(r)

author == ctx.pr.login
isDraft == ctx.pr.draft
prState == IF ctx.pr.state = "" THEN "open" ELSE ctx.pr.state

isBotUser ==
    \/ (ctx.pr.type # <<>> /\ toLowerCase(ctx.pr.type) = <<"b", "o", "t">>)
    \/ EndsWithBot(author)

\* the gates with the team scan ahead of the excludeUsers check
EntryGatesTeamsFirst ==
    IF ctx.eventName # "pull_request" /\ ctx.eventName # "pull_request_target" THEN "skipped"
    ELSE IF ~ctx.hasPr THEN "skipped"
    ELSE IF author = <<>> THEN "skipped"
    ELSE IF isBotUser THEN "skipped"
    ELSE IF inputs.token = "" THEN "skipped"
    ELSE IF Len(inputs.excludeTeams) > 0 THEN "teams"
    ELSE IF isUserExcludedByList(inputs.excludeUsers, author) THEN "skipped"
    ELSE "passed"

\* the gates without the check of the event name
EntryGatesNoEventCheck ==
    IF ~ctx.hasPr THEN "skipped"
    ELSE IF author = <<>> THEN "skipped"
    ELSE IF isBotUser THEN "skipped"
    ELSE IF inputs.token = "" THEN "skipped"
    ELSE IF isUserExcludedByList(inputs.excludeUsers, author) THEN "skipped"
    ELSE IF Len(inputs.excludeTeams) > 0 THEN "teams"
    ELSE "passed"

\* lines 16-69: the gates before the team scan
EntryGates ==
    IF ctx.eventName # "pull_request" /\ ctx.eventName # "pull_request_target" THEN "skipped"
    ELSE IF ~ctx.hasPr THEN "skipped"
    ELSE IF author = <<>> THEN "skipped"
    ELSE IF isBotUser THEN "skipped"
    ELSE IF inputs.token = "" THEN "skipped"
    ELSE IF isUserExcludedByList(inputs.excludeUsers, author) THEN "skipped"
    ELSE IF Len(inputs.excludeTeams) > 0 THEN "teams"
    ELSE "passed"

\* the not-open gate evaluated before the draft gate
StateGateBeforeDraftGate ==
    IF prState # "open" THEN "skipped"
    ELSE IF ~inputs.countDrafts /\ isDraft THEN "ok"
    ELSE "fetch"

\* lines 78-90: the draft gate and the not-open gate
DraftAndStateGates ==
    IF ~inputs.countDrafts /\ isDraft THEN "ok"
    ELSE IF prState # "open" THEN "skipped"
    ELSE "fetch"

\* lines 13-90, up to the first await
RunStart ==
    /\ pc = "start"
    /\ LET err == PolicyParseError(policyJson)
       IN  IF err # "ok"
           THEN /\ Fatal("Failed to parse 'policy' input: " \o err)
                /\ inputs' = inputs
           ELSE /\ inputs' = [inputs EXCEPT !.policy = ParsedPolicy(policyJson)]
                /\ Proceed(IF EntryGates = "passed" THEN DraftAndStateGates ELSE EntryGates)
    /\ UNCHANGED <<policyJson, ctx, teamIdx, openCount, mergedCount,
                   effectiveOpen, allowedOpen, excluded, calls>>

Call(api, arg, res) == [api |-> api, arg |-> arg, res |-> res]

MembershipResponses == {"active", "pending", "error"}

\* an iteration that goes on to the next slug after every failure
TeamIterationIgnoresFailure(res) ==
    IF res = "active" THEN "excluded" ELSE "next"

\* an iteration that returns true after every failure
TeamIterationFailureExcludes(res) ==
    IF res = "active" \/ res = "error" THEN "excluded" ELSE "next"

\* what one iteration of the loop of isUserExcludedByTeams does with a response
\* (exclusions.ts 34-51): "excluded" is return true, "next" the next slug
TeamIteration(res) ==
    IF res = "active" THEN "excluded"
    ELSE IF res = "error" /\ inputs.skipOnFailure THEN "excluded"
    ELSE "next"

\* after an iteration: the loop goes on, or returns to run() at line 71
AfterTeam(it) ==
    IF it = "excluded" THEN Proceed("skipped") /\ excluded' = "true"
    ELSE IF teamIdx < Len(inputs.excludeTeams) THEN Goto("teams") /\ excluded' = excluded
    ELSE Proceed(DraftAndStateGates) /\ excluded' = "false"

\* one iteration of the for-loop of isUserExcludedByTeams (exclusions.ts 21-53)
TeamStep ==
    /\ pc = "teams"
    /\ LET parsed == parseTeamSlug(inputs.excludeTeams[teamIdx])
       IN  IF parsed = <<>>
           THEN /\ calls' = calls
                /\ AfterTeam("next")
           ELSE \E res \in MembershipResponses :
                /\ calls' = Append(calls, Call("teams.getMembershipForUserInOrg", parsed, res))
                /\ AfterTeam(TeamIteration(res))
    /\ teamIdx' = IF pc' = "teams" THEN teamIdx + 1 ELSE teamIdx
    /\ UNCHANGED <<policyJson, inputs, ctx, openCount, mergedCount,
                   effectiveOpen, allowedOpen>>

\* the current PR taken as included only when it is not a draft
currentIncludedIfNotDraft(draft, countDrafts) == ~draft

\* the raw count taken as the effective count
NormalizeKeepsCurrent(raw, draft, countDrafts) == raw

\* lines 116-117
currentIncluded(draft, countDrafts) == IF countDrafts THEN TRUE ELSE ~draft
Normalize(raw, draft, countDrafts) ==
    raw - (IF currentIncluded(draft, countDrafts) THEN 1 ELSE 0)

\* enforcement only above the limit
OverLimitStrict(effective, allowed) == effective > allowed

\* line 130
OverLimit(effective, allowed) == effective >= allowed

\* the revert branch selected whatever countDrafts is
RevertIgnoresCountDrafts ==
    /\ inputs.revertToDraftOnReady
    /\ ctx.action = "ready_for_review"

\* line 134: the revert branch is selected
RevertSelected ==
    /\ ~inputs.countDrafts
    /\ inputs.revertToDraftOnReady
    /\ ctx.action = "ready_for_review"

\* lines 130-196: where the run goes after the comparison
Enforcement(effective, allowed) ==
    IF OverLimit(effective, allowed)
    THEN IF RevertSelected
         THEN IF Len(trim(inputs.backToDraftComment)) > 0 THEN "back_comment" ELSE "revert"
         ELSE "close_comment"
    ELSE "ok"

OpenQuery == IF inputs.countDrafts THEN "is:open" ELSE "is:open -is:draft"

\* the responses of the count query: an error, or the two issueCounts
CountResponses ==
    {[ok |-> FALSE, open |-> 0, merged |-> 0]}
    \cup {[ok |-> TRUE, open |-> o, merged |-> m] : o \in 0..MaxOpen, m \in 0..MaxMerged}

\* line 125: the value of the openCount output
OpenCountOutput(raw, effective) == String(effective)

\* a catch that turns every failure of the count fetch into a skip
FetchFailureAlwaysSkips == "skipped"

\* lines 102-110: the catch of the count fetch
FetchFailureOutcome == IF inputs.skipOnFailure THEN "skipped" ELSE "fatal"

\* lines 92-134 and 251-252: the count fetch, the outputs and the comparison
FetchCounts ==
    /\ pc = "fetch"
    /\ \E r \in CountResponses :
        /\ calls' = Append(calls, Call("fetchAuthorPRCounts", OpenQuery,
                                       IF r.ok THEN "ok" ELSE "error"))
        /\ IF ~r.ok
           THEN /\ IF FetchFailureOutcome = "fatal"
                   THEN Fatal(ErrMsg)
                   ELSE Proceed(FetchFailureOutcome)
                /\ UNCHANGED <<openCount, mergedCount, effectiveOpen, allowedOpen>>
           ELSE LET eff == Normalize(r.open, isDraft, inputs.countDrafts)
                    allowed == allowedOpenFromPolicy(inputs.policy, r.merged)
                    next == Enforcement(eff, allowed)
                IN  /\ openCount' = r.open
                    /\ mergedCount' = r.merged
                    /\ effectiveOpen' = eff
                    /\ allowedOpen' = allowed
                    /\ outputs' =
                         [outputs EXCEPT
                            !["openCount"] = Append(@, OpenCountOutput(r.open, eff)),
                            !["mergedCount"] = Append(@, String(r.merged)),
                            !["allowedOpen"] = Append(@, String(allowed)),
                            !["decision"] = IF next = "ok" THEN Append(@, "ok") ELSE @]
                    /\ pc' = IF next = "ok" THEN "done" ELSE next
                    /\ failed' = failed
    /\ UNCHANGED <<policyJson, inputs, ctx, teamIdx, excluded>>

ActionResponses == {"ok", "error"}

\* lines 137-142 and 189-194: the comment's body
CommentBody(template) ==
    renderTemplate(template, author, effectiveOpen, allowedOpen, mergedCount)

\* every comment failure ends the run
BackCommentSkipsOnAnyFailure(res) == IF res = "error" THEN "skipped" ELSE "revert"

\* lines 150-159: after the back-to-draft comment
BackCommentOutcome(res) ==
    IF res = "error" /\ inputs.skipOnFailure THEN "skipped" ELSE "revert"

\* lines 135-162: the back-to-draft comment
BackComment ==
    /\ pc = "back_comment"
    /\ \E res \in ActionResponses :
        /\ calls' = Append(calls, Call("issues.createComment",
                                       CommentBody(trim(inputs.backToDraftComment)), res))
        /\ Proceed(BackCommentOutcome(res))
    /\ UNCHANGED <<policyJson, inputs, ctx, teamIdx, openCount, mergedCount,
                   effectiveOpen, allowedOpen, excluded>>

\* a revert reported as done whatever the call returned
RevertAlwaysReported(res) == "reverted_to_draft"

\* a revert whose failure is fatal whatever skipOnFailure is
RevertFailureFatal(res) == IF res = "ok" THEN "reverted_to_draft" ELSE "fatal"

\* lines 172-184: after pulls.update draft: true
RevertOutcome(res) ==
    IF res = "ok" THEN "reverted_to_draft"
    ELSE IF inputs.skipOnFailure THEN "skipped"
    ELSE "fatal"

\* lines 164-185: pulls.update draft: true
Revert ==
    /\ pc = "revert"
    /\ \E res \in ActionResponses :
        /\ calls' = Append(calls, Call("pulls.update", "draft", res))
        /\ IF RevertOutcome(res) = "fatal"
           THEN Fatal("Failed to revert PR to draft: " \o ErrMsg)
           ELSE Proceed(RevertOutcome(res))
    /\ UNCHANGED <<policyJson, inputs, ctx, teamIdx, openCount, mergedCount,
                   effectiveOpen, allowedOpen, excluded>>

\* every comment failure ends the run
CloseCommentSkipsOnAnyFailure(res) == IF res = "error" THEN "skipped" ELSE "close"

\* lines 203-212: after the close comment
CloseCommentOutcome(res) ==
    IF res = "error" /\ inputs.skipOnFailure THEN "skipped" ELSE "close"

\* lines 188-212: the close comment
CloseComment ==
    /\ pc = "close_comment"
    /\ \E res \in ActionResponses :
        /\ calls' = Append(calls, Call("issues.createComment",
                                       CommentBody(inputs.closeComment), res))
        /\ Proceed(CloseCommentOutcome(res))
    /\ UNCHANGED <<policyJson, inputs, ctx, teamIdx, openCount, mergedCount,
                   effectiveOpen, allowedOpen, excluded>>

\* line 232
LabelConfigured == inputs.labelWhenClosed # <<>> /\ Len(trim(inputs.labelWhenClosed)) > 0

\* a close whose failure is taken for a success
CloseFailureIgnored(res) == IF LabelConfigured THEN "label" ELSE "closed"

\* lines 221-232 and 246-248: after pulls.update state: closed
CloseOutcome(res) ==
    IF res = "ok" THEN (IF LabelConfigured THEN "label" ELSE "closed")
    ELSE IF inputs.skipOnFailure THEN "skipped"
    ELSE "fatal"

\* lines 214-232, 246-248: pulls.update state: closed
Close ==
    /\ pc = "close"
    /\ \E res \in ActionResponses :
        /\ calls' = Append(calls, Call("pulls.update", "closed", res))
        /\ IF CloseOutcome(res) = "fatal"
           THEN Fatal("Failed to close PR: " \o ErrMsg)
           ELSE Proceed(CloseOutcome(res))
    /\ UNCHANGED <<policyJson, inputs, ctx, teamIdx, openCount, mergedCount,
                   effectiveOpen, allowedOpen, excluded>>

\* a label failure that ends the run with skipped
LabelFailureSkips(res) == IF res = "error" THEN "skipped" ELSE "closed"

\* a label failure that ends the run with skipped when skipOnFailure is set
LabelFailureSkipsOnFailure(res) ==
    IF res = "error" /\ inputs.skipOnFailure THEN "skipped" ELSE "closed"

\* lines 240-247: the catch of addLabels only warns; the decision is closed
LabelOutcome(res) == "closed"

\* lines 233-248: issues.addLabels
AddLabel ==
    /\ pc = "label"
    /\ \E res \in ActionResponses :
        /\ calls' = Append(calls, Call("issues.addLabels", Join(inputs.labelWhenClosed), res))
        /\ Proceed(LabelOutcome(res))
    /\ UNCHANGED <<policyJson, inputs, ctx, teamIdx, openCount, mergedCount,
                   effectiveOpen, allowedOpen, excluded>>

Next ==
    \/ RunStart
    \/ TeamStep
    \/ FetchCounts
    \/ BackComment
    \/ Revert
    \/ CloseComment
    \/ Close
    \/ AddLabel

Spec == Init /\ [][Next]_vars

(***************************************************************************)
(* The policy table on its own: allowedOpenFromPolicy applied to every     *)
(* table of up to MaxRules rules and every merged count.                   *)
(***************************************************************************)
PolicyRules == {JRule(m, a) : m \in 0..MaxMerged, a \in {1, 2, 3}}

InitPolicy ==
    /\ pc = "policy"
    /\ policyJson \in {JArray(rules) : rules \in SeqsUpTo(PolicyRules, MaxRules)}
    /\ inputs \in {c \in ConfigInputs({<<>>}) :
                     /\ c.excludeUsers = <<>> /\ c.token = "ghs"
                     /\ c.countDrafts /\ c.skipOnFailure /\ c.revertToDraftOnReady
                     /\ c.backToDraftComment = <<>> /\ c.labelWhenClosed = <<>>}
    /\ ctx \in Contexts({"pull_request"}, {"opened"}, {"open"})
    /\ ctx.hasPr /\ ctx.pr.login = Al /\ ctx.pr.type = TypeUser /\ ~ctx.pr.draft
    /\ teamIdx = 1
    /\ openCount = 0
    /\ mergedCount \in 0..MaxMerged
    /\ effectiveOpen = 0
    /\ allowedOpen = 0
    /\ excluded = "unset"
    /\ calls = <<>>
    /\ outputs = [n \in OutputNames |-> <<>>]
    /\ failed = <<>>

\* config.ts 21-39 and main.ts line 119, for the merged count drawn
ApplyPolicy ==
    /\ pc = "policy"
    /\ PolicyParseError(policyJson) = "ok"
    /\ inputs' = [inputs EXCEPT !.policy = ParsedPolicy(policyJson)]
    /\ allowedOpen' = allowedOpenFromPolicy(ParsedPolicy(policyJson), mergedCount)
    /\ pc' = "resolved"
    /\ UNCHANGED <<policyJson, ctx, teamIdx, openCount, mergedCount, effectiveOpen,
                   excluded, calls, outputs, failed>>

NextPolicy == ApplyPolicy

SpecPolicy == InitPolicy /\ [][NextPolicy]_vars

(***************************************************************************)
(* The team scan: every excludeTeams list of up to MaxTeams slugs, for a   *)
(* pull-request event that reaches the exclusion checks.                   *)
(***************************************************************************)
InitTeams ==
    InitWith({JArray(PolicyExample)},
             {c \in ConfigInputs(SeqsUpTo(Slugs, MaxTeams)) :
                 /\ c.excludeUsers = <<>> /\ c.token = "ghs"
                 /\ c.backToDraftComment = BackTemplate /\ c.labelWhenClosed = Label},
             {c \in Contexts({"pull_request"}, {"ready_for_review"}, {"open"}) :
                 c.hasPr /\ c.pr.login = Al /\ c.pr.type = TypeUser})

SpecTeams == InitTeams /\ [][Next]_vars

(***************************************************************************)
(* The run over policy inputs of every shape: text that is not JSON, a     *)
(* value that is not an array, the empty array, rules with a field that is *)
(* not a number, rules with negative numbers, and a well-formed policy.    *)
(***************************************************************************)
JSyntaxError == [kind |-> "syntax_error", rules |-> <<>>]
RuleStringAllowed == [minMerged |-> JNum(1), allowedOpen |-> JStr]
RuleStringMinMerged == [minMerged |-> JStr, allowedOpen |-> JNum(1)]

PolicyInputs ==
    { JSyntaxError, JObject, JArray(<<>>),
      JArray(<<JRule(0, 1), RuleStringAllowed>>),
      JArray(<<RuleStringMinMerged>>),
      JArray(<<JRule(0 - 1, 1)>>),
      JArray(<<JRule(0, 0 - 1)>>),
      JArray(PolicyExample) }

InitConfig ==
    InitWith(PolicyInputs,
             {c \in ConfigInputs({<<>>, <<SlugOT>>}) :
                 /\ c.excludeUsers = <<>> /\ c.token = "ghs"
                 /\ c.backToDraftComment = BackTemplate /\ c.labelWhenClosed = Label},
             {c \in Contexts({"push", "pull_request"}, {"opened", "ready_for_review"}, {"open"}) :
                 c.hasPr => (c.pr.login = Al /\ c.pr.type = TypeUser)})

SpecConfig == InitConfig /\ [][Next]_vars

(***************************************************************************)
(* Vocabulary of the properties.                                           *)
(***************************************************************************)
Done == pc = "done"
decision == outputs["decision"]
ActionApis == {"issues.createComment", "pulls.update", "issues.addLabels"}
NoActionCalls == \A i \in DOMAIN calls : calls[i].api \notin ActionApis
FetchedOk ==
    \E i \in DOMAIN calls : calls[i].api = "fetchAuthorPRCounts" /\ calls[i].res = "ok"
FailedComment(i) == calls[i].api = "issues.createComment" /\ calls[i].res = "error"
IsUpdate(i, what) == calls[i].api = "pulls.update" /\ calls[i].arg = what
IsLast(i) == i = Len(calls)

\* after the failed comment calls[i] the close call is made next, and its
\* success leads to the decision closed
CloseFollows(i) ==
    \/ IsLast(i) /\ pc = "close"
    \/ /\ i < Len(calls)
       /\ IsUpdate(i + 1, "closed")
       /\ calls[i + 1].res = "ok" => (pc = "label" \/ (Done /\ decision = <<"closed">>))

\* after the failed comment calls[i] the revert call is made next, and its
\* success leads to the decision reverted_to_draft
RevertFollows(i) ==
    \/ IsLast(i) /\ pc = "revert"
    \/ /\ i < Len(calls)
       /\ IsUpdate(i + 1, "draft")
       /\ calls[i + 1].res = "ok" => (Done /\ decision = <<"reverted_to_draft">>)

\* the failed call calls[i] ended the run with the decision skipped
EndedSkipped(i) ==
    IsLast(i) /\ Done /\ decision = <<"skipped">> /\ failed = <<>>

(***************************************************************************)
(* C1.  As claimed: in the close branch a failed comment call is never     *)
(* terminal; for both values of skipOnFailure the close call is attempted  *)
(* after it, and a successful close gives the decision closed.             *)
(***************************************************************************)
C1_CommentFailureNeverTerminal ==
    \A i \in DOMAIN calls :
        (FailedComment(i) /\ ~RevertSelected) => CloseFollows(i)

\* C1, amended: in the close branch a failed comment call is followed by the
\* close call (closed on success) when skipOnFailure is false; when it is
\* true the failed comment ends the run with the decision skipped and no
\* close call is made.
C1_CommentFailureBySkipOnFailure ==
    \A i \in DOMAIN calls :
        (FailedComment(i) /\ ~RevertSelected) =>
            IF inputs.skipOnFailure THEN EndedSkipped(i) ELSE CloseFollows(i)

C1_Witness ==
    /\ Done /\ ~inputs.skipOnFailure /\ ~RevertSelected
    /\ decision = <<"closed">>
    /\ \E i \in DOMAIN calls :
        FailedComment(i) /\ i < Len(calls) /\ IsUpdate(i + 1, "closed")
                         /\ calls[i + 1].res = "ok"

(***************************************************************************)
(* C2.  As claimed: in the revert branch a failed back-to-draft comment    *)
(* never blocks the revert; for both values of skipOnFailure the revert    *)
(* call is attempted after it, and its success gives reverted_to_draft.    *)
(***************************************************************************)
C2_BackCommentFailureNeverBlocks ==
    \A i \in DOMAIN calls :
        (FailedComment(i) /\ RevertSelected) => RevertFollows(i)

\* C2, amended: in the revert branch a failed back-to-draft comment is
\* followed by the revert call (reverted_to_draft on success) when
\* skipOnFailure is false; when it is true the failed comment ends the run
\* with the decision skipped and no revert call is made.
C2_BackCommentFailureBySkipOnFailure ==
    \A i \in DOMAIN calls :
        (FailedComment(i) /\ RevertSelected) =>
            IF inputs.skipOnFailure THEN EndedSkipped(i) ELSE RevertFollows(i)

C2_Witness ==
    /\ Done /\ ~inputs.skipOnFailure /\ RevertSelected
    /\ decision = <<"reverted_to_draft">>
    /\ \E i \in DOMAIN calls :
        FailedComment(i) /\ i < Len(calls) /\ IsUpdate(i + 1, "draft")
                         /\ calls[i + 1].res = "ok"

(***************************************************************************)
(* C3.  Once the counts are fetched: below the limit the decision is ok    *)
(* and no comment, close, revert or label call is made; at or above the    *)
(* limit (equality included) an enforcement branch is entered and the      *)
(* decision is never ok.                                                   *)
(***************************************************************************)
EnforcementEntered ==
    \/ pc \in {"back_comment", "revert", "close_comment"}
    \/ ~NoActionCalls

C3_CoreComparison ==
    FetchedOk =>
        /\ effectiveOpen < allowedOpen =>
              Done /\ decision = <<"ok">> /\ NoActionCalls /\ failed = <<>>
        /\ effectiveOpen >= allowedOpen =>
              EnforcementEntered /\ (\A k \in DOMAIN decision : decision[k] # "ok")

C3_Witness ==
    /\ FetchedOk /\ effectiveOpen = allowedOpen /\ Done
    /\ decision = <<"closed">>

(***************************************************************************)
(* C4.  As claimed: with countDrafts=true, an open current PR of a         *)
(* non-excluded author, a raw open count of 2 and allowedOpen resolved to  *)
(* 1, the effective count is 1 and the decision is ok, with no comment or  *)
(* close call.                                                             *)
(***************************************************************************)
C4_Scenario ==
    FetchedOk /\ inputs.countDrafts /\ openCount = 2 /\ allowedOpen = 1

C4_RawTwoAllowedOneIsOk ==
    C4_Scenario =>
        effectiveOpen = 1 /\ NoActionCalls /\ (Done => decision = <<"ok">>)

\* C4, amended: in that scenario the effective count is 1, which is at the
\* limit: the close branch is entered (the close comment is the next call)
\* and the decision is never ok; it is closed when the close call succeeds.
C4_RawTwoAllowedOneIsEnforced ==
    C4_Scenario =>
        /\ effectiveOpen = 1
        /\ outputs["openCount"] = <<"1">>
        /\ \A k \in DOMAIN decision : decision[k] # "ok"
        /\ pc = "close_comment" \/
             \E i \in DOMAIN calls :
                /\ calls[i].api = "fetchAuthorPRCounts"
                /\ i < Len(calls)
                /\ calls[i + 1].api = "issues.createComment"
        /\ (\E i \in DOMAIN calls : IsUpdate(i, "closed") /\ calls[i].res = "ok")
              => (pc = "label" \/ decision = <<"closed">>)

C4_Witness ==
    C4_Scenario /\ Done /\ decision = <<"closed">> /\ effectiveOpen = 1

(***************************************************************************)
(* C5.  For a non-empty policy table and a merged count m that some rule   *)
(* covers, allowedOpenFromPolicy gives the allowedOpen of the rule with    *)
(* the greatest minMerged <= m, the later rule in the original order       *)
(* winning among equal minMerged; [{0,1},{1,2},{3,3}] with m = 2 gives 2.  *)
(***************************************************************************)
Resolved == pc = "resolved"

\* the rule the claim names: greatest minMerged <= m, latest among equals
GreatestCovering(P, m) ==
    CHOOSE i \in DOMAIN P :
        /\ P[i].minMerged <= m
        /\ \A j \in DOMAIN P :
              P[j].minMerged <= m =>
                 \/ P[j].minMerged < P[i].minMerged
                 \/ (P[j].minMerged = P[i].minMerged /\ j <= i)

C5_GreatestCoveringRule ==
    Resolved =>
        /\ (\E i \in DOMAIN inputs.policy : inputs.policy[i].minMerged <= mergedCount)
              => allowedOpen =
                   inputs.policy[GreatestCovering(inputs.policy, mergedCount)].allowedOpen
        /\ (policyJson = JArray(PolicyExample) /\ mergedCount = 2) => allowedOpen = 2

\* a table with two rules of equal minMerged, the later one selected
C5_Witness ==
    /\ Resolved
    /\ policyJson = JArray(<<JRule(0, 1), JRule(1, 3), JRule(1, 2)>>)
    /\ mergedCount = 2
    /\ allowedOpen = 2

(***************************************************************************)
(* C6.  allowedOpenFromPolicy is total: 1 for the empty table; for a       *)
(* table whose every rule has minMerged > m, the allowedOpen of the rule   *)
(* with the smallest minMerged (the first such rule in the original        *)
(* order); and always a defined value.                                     *)
(***************************************************************************)
FirstSmallest(P) ==
    CHOOSE i \in DOMAIN P :
        /\ \A j \in DOMAIN P : P[i].minMerged <= P[j].minMerged
        /\ \A j \in DOMAIN P : P[j].minMerged = P[i].minMerged => i <= j

C6_Total ==
    Resolved =>
        /\ inputs.policy = <<>> => allowedOpen = 1
        /\ ( /\ inputs.policy # <<>>
             /\ \A i \in DOMAIN inputs.policy : inputs.policy[i].minMerged > mergedCount )
              => allowedOpen = inputs.policy[FirstSmallest(inputs.policy)].allowedOpen
        /\ inputs.policy # <<>>
              => \E i \in DOMAIN inputs.policy : allowedOpen = inputs.policy[i].allowedOpen

\* every rule above the merged count, the smallest minMerged not first and not 0
C6_Witness ==
    /\ Resolved
    /\ policyJson = JArray(<<JRule(3, 3), JRule(1, 2)>>)
    /\ mergedCount = 0
    /\ allowedOpen = 2

(***************************************************************************)
(* C7.  The effective open count is the raw count r less one when          *)
(* countDrafts is true, less one when countDrafts is false and the current *)
(* PR is not a draft, and r when countDrafts is false and the current PR   *)
(* is a draft; the openCount output and the {openCount} of the comments    *)
(* are the effective count, not the raw one.                               *)
(***************************************************************************)
ExpectedEffective(r, draft, countDrafts) ==
    IF countDrafts THEN r - 1 ELSE IF draft THEN r ELSE r - 1

ExpectedComment(eff) ==
    IF RevertSelected
    THEN "draft: " \o String(eff) \o "/" \o String(allowedOpen)
    ELSE Join(author) \o ": " \o String(eff) \o "/" \o String(allowedOpen)
            \o " m=" \o String(mergedCount)

C7_EffectiveOpenCount ==
    /\ \A r \in 0..MaxOpen, d \in BOOLEAN, c \in BOOLEAN :
          Normalize(r, d, c) = ExpectedEffective(r, d, c)
    /\ FetchedOk =>
          LET eff == ExpectedEffective(openCount, isDraft, inputs.countDrafts)
          IN  /\ effectiveOpen = eff
              /\ outputs["openCount"] = <<String(eff)>>
              /\ \A i \in DOMAIN calls :
                    calls[i].api = "issues.createComment"
                        => calls[i].arg = ExpectedComment(eff)

\* a draft PR with countDrafts=true: the raw count 3 is output and rendered as 2
C7_Witness ==
    /\ FetchedOk /\ inputs.countDrafts /\ isDraft /\ openCount = 3
    /\ effectiveOpen = 2
    /\ outputs["openCount"] = <<"2">>
    /\ \E i \in DOMAIN calls :
          calls[i].api = "issues.createComment" /\ calls[i].arg = "Al: 2/1 m=0"

(***************************************************************************)
(* C8.  Exclusion precedence: for a pull-request event with a resolvable   *)
(* author and inputs that parse, a bot author ends in skipped without any  *)
(* team-membership query, whatever excludeUsers and excludeTeams hold; an  *)
(* author on excludeUsers ends in skipped without any team-membership      *)
(* query, also when skipOnFailure is false.                                *)
(***************************************************************************)
PullRequestEvent ==
    /\ ctx.eventName \in {"pull_request", "pull_request_target"}
    /\ ctx.hasPr
    /\ author # <<>>

BotAuthor == ctx.pr.type = TypeBot \/ author = XBot
ListedAuthor ==
    \E i \in DOMAIN inputs.excludeUsers :
        toLowerCase(inputs.excludeUsers[i]) = toLowerCase(author)

C8_ExclusionPrecedence ==
    ( /\ PullRequestEvent
      /\ PolicyParseError(policyJson) = "ok"
      /\ BotAuthor \/ ListedAuthor )
    => \/ pc = "start"
       \/ Done /\ decision = <<"skipped">> /\ calls = <<>> /\ failed = <<>>

\* a listed author who is no bot, with a team configured and skipOnFailure false
C8_Witness ==
    /\ Done /\ PullRequestEvent /\ ListedAuthor /\ ~BotAuthor
    /\ inputs.token # ""
    /\ inputs.excludeTeams = <<SlugOT>>
    /\ ~inputs.skipOnFailure
    /\ decision = <<"skipped">>
    /\ calls = <<>>

(***************************************************************************)
(* C9.  A team-membership query that fails while skipOnFailure is true     *)
(* ends the run with the decision skipped: no later team is queried and    *)
(* no count fetch, comment, close, revert or label call is made.           *)
(***************************************************************************)
IsMembership(i) == calls[i].api = "teams.getMembershipForUserInOrg"

C9_TeamFailureSkips ==
    \A i \in DOMAIN calls :
        (IsMembership(i) /\ calls[i].res = "error" /\ inputs.skipOnFailure)
            => /\ EndedSkipped(i)
               /\ \A j \in DOMAIN calls : IsMembership(j)
               /\ excluded = "true"

\* the first of three teams fails; the two later valid teams are not queried
C9_Witness ==
    /\ Done /\ inputs.skipOnFailure
    /\ inputs.excludeTeams = <<SlugOT, SlugOU, SlugOT>>
    /\ Len(calls) = 1 /\ IsMembership(1) /\ calls[1].res = "error"
    /\ decision = <<"skipped">>

(***************************************************************************)
(* C10.  With skipOnFailure false the teams are queried in configured      *)
(* order; a failed query or a non-active response moves on to the next     *)
(* team and neither fails the run nor excludes the author; the first       *)
(* active response excludes the author and ends the scan; so the author    *)
(* is excluded by teams exactly if a validly parsed team's query reports   *)
(* active membership.                                                      *)
(***************************************************************************)
\* the configured slugs that parse, in configured order, as <<org, team>>
RECURSIVE ValidTeams(_)
ValidTeams(slugs) ==
    IF slugs = <<>> THEN <<>>
    ELSE (IF parseTeamSlug(Head(slugs)) = <<>> THEN <<>> ELSE <<parseTeamSlug(Head(slugs))>>)
            \o ValidTeams(Tail(slugs))

MembershipCalls == {i \in DOMAIN calls : IsMembership(i)}
SomeActive == \E i \in MembershipCalls : calls[i].res = "active"

C10_TeamScanWithoutSkipOnFailure ==
    ~inputs.skipOnFailure =>
        LET valid == ValidTeams(inputs.excludeTeams)
        IN  /\ Cardinality(MembershipCalls) <= Len(valid)
            /\ \A i \in MembershipCalls :
                  /\ \A j \in 1..i : IsMembership(j)
                  /\ calls[i].arg = valid[i]
                  /\ calls[i].res = "active" => EndedSkipped(i)
                  /\ (calls[i].res # "active" /\ IsLast(i)) =>
                        /\ failed = <<>>
                        /\ excluded # "true"
                        /\ pc = "teams" \/ excluded = "false"
            /\ excluded = "true" <=> SomeActive
            /\ excluded = "false" =>
                  Cardinality(MembershipCalls) = Len(valid) /\ ~SomeActive
            /\ (excluded = "unset" /\ pc # "start" /\ pc # "teams") =>
                  MembershipCalls = {}

\* a failure, then a non-active response, then an invalid slug: not excluded,
\* the run goes on to the count fetch
C10_WitnessNotExcluded ==
    /\ ~inputs.skipOnFailure
    /\ inputs.excludeTeams = <<SlugOT, SlugOU, SlugBad>>
    /\ Len(calls) = 3
    /\ calls[1].res = "error" /\ calls[2].res = "pending"
    /\ calls[3].api = "fetchAuthorPRCounts"
    /\ excluded = "false"

\* a failure, then active membership: excluded, the third team is not queried
C10_Witness ==
    /\ ~inputs.skipOnFailure /\ Done
    /\ inputs.excludeTeams = <<SlugOT, SlugOU, SlugOT>>
    /\ Len(calls) = 2
    /\ calls[1].res = "error" /\ calls[2].res = "active"
    /\ calls[2].arg = <<(<<"o">>), (<<"u">>)>>
    /\ excluded = "true"
    /\ decision = <<"skipped">>

\* the count fetch calls[i] failed
FailedFetch(i) == calls[i].api = "fetchAuthorPRCounts" /\ calls[i].res = "error"

\* calls[i] is a close or revert call that failed
FailedUpdate(i) == calls[i].api = "pulls.update" /\ calls[i].res = "error"

\* the failed call calls[i] ended the run fatally, with no decision
EndedFatal(i) ==
    IsLast(i) /\ Done /\ decision = <<>> /\ Len(failed) = 1

NumericOutputs == {"openCount", "allowedOpen", "mergedCount"}

(***************************************************************************)
(* C11.  A failed count fetch ends the run: with the decision skipped when *)
(* skipOnFailure is true, fatally and without a decision when it is false. *)
(* In both cases no comment, close, revert or label call is made and none  *)
(* of openCount, allowedOpen, mergedCount is output.                       *)
(***************************************************************************)
C11_FetchFailure ==
    \A i \in DOMAIN calls :
        FailedFetch(i) =>
            /\ IF inputs.skipOnFailure THEN EndedSkipped(i) ELSE EndedFatal(i)
            /\ NoActionCalls
            /\ \A n \in NumericOutputs : outputs[n] = <<>>

\* skipOnFailure=false: the failed fetch is fatal
C11_Witness ==
    /\ Done /\ ~inputs.skipOnFailure
    /\ \E i \in DOMAIN calls : FailedFetch(i)
    /\ failed = <<ErrMsg>>
    /\ decision = <<>>

(***************************************************************************)
(* C12.  A failed close or revert call ends the run: with the decision     *)
(* skipped when skipOnFailure is true, fatally and without a decision when *)
(* it is false.  The decision is then never closed or reverted_to_draft,   *)
(* and no label call follows a failed close.                               *)
(***************************************************************************)
C12_UpdateFailure ==
    \A i \in DOMAIN calls :
        FailedUpdate(i) =>
            /\ IF inputs.skipOnFailure THEN EndedSkipped(i) ELSE EndedFatal(i)
            /\ \A k \in 1..Len(decision) :
                  decision[k] \notin {"closed", "reverted_to_draft"}
            /\ \A j \in DOMAIN calls : calls[j].api # "issues.addLabels"

\* skipOnFailure=false with a label configured: the failed close is fatal
C12_Witness ==
    /\ Done /\ ~inputs.skipOnFailure /\ LabelConfigured
    /\ \E i \in DOMAIN calls : FailedUpdate(i) /\ IsUpdate(i, "closed")
    /\ Len(failed) = 1
    /\ decision = <<>>

\* skipOnFailure=true: the failed revert ends in skipped
C12_WitnessRevert ==
    /\ Done /\ inputs.skipOnFailure
    /\ \E i \in DOMAIN calls : FailedUpdate(i) /\ IsUpdate(i, "draft")
    /\ decision = <<"skipped">>

IsLabel(i) == calls[i].api = "issues.addLabels"

(***************************************************************************)
(* C13.  A label failure never downgrades the outcome: once the close call *)
(* has succeeded the run ends with the decision closed, for both values of *)
(* skipOnFailure, whether the label is not configured, is added, or fails  *)
(* to be added.  A label call is made only right after a successful close  *)
(* call, and never in the revert branch.                                   *)
(***************************************************************************)
C13_LabelNeverDowngrades ==
    /\ \A i \in DOMAIN calls :
          (IsUpdate(i, "closed") /\ calls[i].res = "ok") =>
              \/ pc = "label" /\ IsLast(i) /\ LabelConfigured
              \/ /\ Done /\ decision = <<"closed">> /\ failed = <<>>
                 /\ IF LabelConfigured
                    THEN i + 1 = Len(calls) /\ IsLabel(i + 1)
                    ELSE IsLast(i)
    /\ \A j \in DOMAIN calls :
          IsLabel(j) =>
              /\ j > 1
              /\ IsUpdate(j - 1, "closed") /\ calls[j - 1].res = "ok"
              /\ ~(~inputs.countDrafts /\ inputs.revertToDraftOnReady
                      /\ ctx.action = "ready_for_review")

\* skipOnFailure=true: the label call fails after the close, decision closed
C13_Witness ==
    /\ Done /\ inputs.skipOnFailure
    /\ \E j \in DOMAIN calls : IsLabel(j) /\ calls[j].res = "error"
    /\ decision = <<"closed">>
    /\ failed = <<>>

IsComment(i) == calls[i].api = "issues.createComment"

UpdateCalls == {i \in DOMAIN calls : calls[i].api = "pulls.update"}

\* the three conditions of the revert branch, read from the inputs and the event
RevertConditions ==
    /\ ~inputs.countDrafts
    /\ inputs.revertToDraftOnReady
    /\ ctx.action = "ready_for_review"

\* closeComment and backToDraftComment as rendered for this run
RenderedCloseComment ==
    Join(author) \o ": " \o String(effectiveOpen) \o "/" \o String(allowedOpen)
        \o " m=" \o String(mergedCount)

RenderedBackComment ==
    "draft: " \o String(effectiveOpen) \o "/" \o String(allowedOpen)

(***************************************************************************)
(* C14.  When enforcement applies, the revert branch runs if and only if   *)
(* countDrafts is false, revertToDraftOnReady is true and the action is    *)
(* ready_for_review; otherwise the close branch runs.  A run makes at most *)
(* one PR-update call; a run in the revert branch never posts the close    *)
(* comment and never adds a label, a run in the close branch never posts   *)
(* the back-to-draft comment and never reverts.                            *)
(***************************************************************************)
C14_BranchSelection ==
    /\ Cardinality(UpdateCalls) <= 1
    /\ (FetchedOk /\ effectiveOpen >= allowedOpen) =>
          IF RevertConditions
          THEN /\ pc \in {"back_comment", "revert", "done"}
               /\ pc = "done" => \E i \in DOMAIN calls : i > 1 /\ calls[i].api \in ActionApis
               /\ \A i \in DOMAIN calls :
                     /\ ~IsLabel(i)
                     /\ ~IsUpdate(i, "closed")
                     /\ IsComment(i) => calls[i].arg = RenderedBackComment
                                          /\ calls[i].arg # RenderedCloseComment
          ELSE /\ pc \in {"close_comment", "close", "label", "done"}
               /\ pc = "done" => \E i \in DOMAIN calls : IsUpdate(i, "closed") \/ FailedComment(i)
               /\ \A i \in DOMAIN calls :
                     /\ ~IsUpdate(i, "draft")
                     /\ IsComment(i) => calls[i].arg = RenderedCloseComment
                                          /\ calls[i].arg # RenderedBackComment

\* countDrafts=true with revertToDraftOnReady on ready_for_review: the close
\* branch ran
C14_Witness ==
    /\ Done /\ inputs.countDrafts /\ inputs.revertToDraftOnReady
    /\ ctx.action = "ready_for_review"
    /\ \E i \in DOMAIN calls : IsUpdate(i, "closed")
    /\ \E i \in DOMAIN calls : IsComment(i) /\ calls[i].arg = RenderedCloseComment

\* the revert branch ran: back-to-draft comment, then the revert
C14_WitnessRevert ==
    /\ Done /\ RevertConditions
    /\ decision = <<"reverted_to_draft">>
    /\ \E i \in DOMAIN calls : IsComment(i) /\ calls[i].arg = RenderedBackComment
    /\ \E i \in DOMAIN calls : IsUpdate(i, "draft")

(***************************************************************************)
(* C15.  Every run ends in exactly one of two ways: with the decision      *)
(* output set exactly once, to one of ok, closed, reverted_to_draft,       *)
(* skipped, and the run not failed; or fatally, with the run failed and    *)
(* the decision output never set.  The decision is never set twice, and a  *)
(* run never sets a decision and then fails.  A run that has not ended can *)
(* always take its next step.                                              *)
(***************************************************************************)
C15_OneTerminalOutcome ==
    /\ Len(decision) <= 1
    /\ Len(failed) <= 1
    /\ ~(decision # <<>> /\ failed # <<>>)
    /\ \A k \in 1..Len(decision) : decision[k] \in {"ok", "closed", "reverted_to_draft", "skipped"}
    /\ Done <=> (Len(decision) = 1 \/ Len(failed) = 1)
    /\ ~Done => ENABLED Next

\* a fatal end: the run failed and set no decision
C15_Witness ==
    /\ Done /\ Len(failed) = 1 /\ decision = <<>>
    /\ \E i \in DOMAIN calls : FailedUpdate(i)

\* an end with a decision: set once, run not failed
C15_WitnessDecision ==
    /\ Done /\ decision = <<"reverted_to_draft">> /\ failed = <<>>

(***************************************************************************)
(* C16.  As claimed: on every run that ends with a decision, on any path,  *)
(* each of the outputs decision, openCount, allowedOpen and mergedCount    *)
(* has been set exactly once.                                              *)
(***************************************************************************)
C16_AllOutputsSetOnce ==
    (Done /\ decision # <<>>) => \A n \in OutputNames : Len(outputs[n]) = 1

\* C16, amended: on every run that ends with a decision, the decision output
\* has been set exactly once; openCount, allowedOpen and mergedCount have each
\* been set exactly once, to the effective count, the limit and the merged
\* count, when the count fetch succeeded in that run, and have not been set
\* at all when the run ended before or at the count fetch.
C16_OutputsSetOnceAfterFetch ==
    /\ (Done /\ decision # <<>>) =>
          /\ Len(decision) = 1
          /\ \A n \in NumericOutputs :
                Len(outputs[n]) = IF FetchedOk THEN 1 ELSE 0
    /\ FetchedOk =>
          /\ outputs["openCount"] = <<String(effectiveOpen)>>
          /\ outputs["allowedOpen"] = <<String(allowedOpen)>>
          /\ outputs["mergedCount"] = <<String(mergedCount)>>

\* a run closed after the fetch: the four outputs are set once each
C16_Witness ==
    /\ Done /\ decision = <<"closed">> /\ FetchedOk
    /\ \A n \in OutputNames : Len(outputs[n]) = 1

\* a bot author: the run ends with skipped and no numeric output
C16_WitnessEarlyExit ==
    /\ Done /\ decision = <<"skipped">> /\ calls = <<>>
    /\ PolicyParseError(policyJson) = "ok"
    /\ \A n \in NumericOutputs : outputs[n] = <<>>

(***************************************************************************)
(* C17.  With skipOnFailure=true and inputs that parse, no failure of an   *)
(* external call (team membership, count fetch, comment, close, revert,    *)
(* label) makes the run fail: the run is never failed, and it ends with a  *)
(* decision set once.                                                      *)
(***************************************************************************)
C17_NoFatalUnderSkipOnFailure ==
    (inputs.skipOnFailure /\ PolicyParseError(policyJson) = "ok") =>
        /\ failed = <<>>
        /\ Done => Len(decision) = 1
        /\ ~Done => ENABLED Next
        /\ \A i \in DOMAIN calls :
              (calls[i].res = "error" /\ ~IsLabel(i)) => EndedSkipped(i)

\* skipOnFailure=true: the revert call failed and the run ended with skipped
C17_Witness ==
    /\ Done /\ inputs.skipOnFailure
    /\ \E i \in DOMAIN calls : FailedUpdate(i) /\ IsUpdate(i, "draft")
    /\ decision = <<"skipped">>
    /\ failed = <<>>

(***************************************************************************)
(* C18.  As claimed: whenever a run ends with the decision skipped, no     *)
(* enforcement action was taken: no comment was posted, the PR was neither *)
(* closed nor reverted to draft, and no label was added.                   *)
(***************************************************************************)
C18_SkippedMeansNoAction ==
    (Done /\ decision = <<"skipped">>) =>
        \A i \in DOMAIN calls :
            calls[i].api \in ActionApis => calls[i].res = "error"

\* C18, amended: whenever a run ends with the decision skipped, the PR was
\* neither closed nor reverted to draft and no label call was made; a
\* comment was posted only in a run with skipOnFailure=true whose close or
\* revert call, made right after the comment, failed.
C18_SkippedMeansNoUpdate ==
    (Done /\ decision = <<"skipped">>) =>
        \A i \in DOMAIN calls :
            /\ ~IsLabel(i)
            /\ calls[i].api = "pulls.update" => calls[i].res = "error"
            /\ (IsComment(i) /\ calls[i].res = "ok") =>
                  /\ inputs.skipOnFailure
                  /\ i + 1 = Len(calls)
                  /\ FailedUpdate(i + 1)

\* the close comment was posted, the close failed, the decision is skipped
C18_Witness ==
    /\ Done /\ decision = <<"skipped">> /\ inputs.skipOnFailure
    /\ Len(calls) = 3
    /\ IsComment(2) /\ calls[2].res = "ok"
    /\ IsUpdate(3, "closed") /\ calls[3].res = "error"

(***************************************************************************)
(* C19.  As claimed (for inputs that parse): if the triggering event is    *)
(* not a supported pull-request trigger, that is a pull-request event with *)
(* the action opened, reopened or ready_for_review, the run ends with the  *)
(* decision skipped and no call is made.                                   *)
(***************************************************************************)
SupportedActions == {"opened", "reopened", "ready_for_review"}

SupportedTrigger ==
    /\ ctx.eventName \in {"pull_request", "pull_request_target"}
    /\ ctx.hasPr
    /\ ctx.action \in SupportedActions

C19_UnsupportedTriggerSkips ==
    (pc # "start" /\ PolicyParseError(policyJson) = "ok" /\ ~SupportedTrigger) =>
        Done /\ decision = <<"skipped">> /\ calls = <<>>

\* C19, amended: for inputs that parse, if the event name is neither
\* pull_request nor pull_request_target, or the event carries no pull
\* request, the run ends with the decision skipped and no call is made.
\* The action of the event is not checked: a pull-request event with any
\* other action passes this gate like a supported one.
C19_NonPullRequestEventSkips ==
    /\ (pc # "start" /\ PolicyParseError(policyJson) = "ok"
          /\ (ctx.eventName \notin {"pull_request", "pull_request_target"}
                \/ ~ctx.hasPr)) =>
          /\ Done /\ decision = <<"skipped">> /\ failed = <<>>
          /\ calls = <<>>
          /\ \A n \in NumericOutputs : outputs[n] = <<>>
    /\ (Done /\ FetchedOk /\ ctx.action \notin SupportedActions) =>
          IF effectiveOpen < allowedOpen
          THEN decision = <<"ok">> /\ NoActionCalls
          ELSE /\ decision # <<"ok">>
               /\ \E i \in DOMAIN calls : calls[i].api \in ActionApis

\* a push event that carries a pull request: skipped at the first gate
C19_Witness ==
    /\ Done /\ ctx.eventName = "push" /\ ctx.hasPr
    /\ ctx.pr.login = Al /\ ctx.pr.type = TypeUser /\ inputs.token # ""
    /\ PolicyParseError(policyJson) = "ok"
    /\ decision = <<"skipped">>
    /\ calls = <<>>

\* a pull_request event with the action synchronize: the PR is closed
C19_WitnessSynchronize ==
    /\ Done /\ ctx.eventName = "pull_request" /\ ctx.action = "synchronize"
    /\ decision = <<"closed">>

\* the shapes of policy that the claim calls malformed
NotAnArray == policyJson.kind # "array"
EmptyArray == policyJson.kind = "array" /\ policyJson.rules = <<>>
NonNumericField ==
    /\ policyJson.kind = "array"
    /\ \E i \in DOMAIN policyJson.rules :
          \/ policyJson.rules[i].minMerged.type # "number"
          \/ policyJson.rules[i].allowedOpen.type # "number"
NegativeField ==
    /\ policyJson.kind = "array"
    /\ \E i \in DOMAIN policyJson.rules :
          \/ policyJson.rules[i].minMerged.num < 0
          \/ policyJson.rules[i].allowedOpen.num < 0

\* the run failed in parseInputs, before any gate, call or output
FailedInParse ==
    /\ Done
    /\ Len(failed) = 1
    /\ failed[1] \in
          { "Failed to parse 'policy' input: Unexpected token",
            "Failed to parse 'policy' input: policy must be a JSON array",
            "Failed to parse 'policy' input: Invalid policy rule at index 0",
            "Failed to parse 'policy' input: Invalid policy rule at index 1" }
    /\ calls = <<>>
    /\ \A n \in OutputNames : outputs[n] = <<>>

(***************************************************************************)
(* C20.  As claimed: a malformed policy, that is one that is not an array, *)
(* an empty array, a rule with a non-numeric minMerged or allowedOpen, or  *)
(* a negative minMerged or allowedOpen, always makes the run fail fatally  *)
(* before any decision logic; such a run never reaches the gates or the    *)
(* threshold resolution.                                                   *)
(***************************************************************************)
C20_MalformedAlwaysFatal ==
    (pc # "start" /\ (NotAnArray \/ EmptyArray \/ NonNumericField \/ NegativeField))
        => FailedInParse

\* C20, amended: a policy that is not valid JSON, is not an array, or has a
\* rule whose minMerged or allowedOpen is not a number always makes the run
\* fail fatally in parseInputs, before any gate, call or output.  An empty
\* array and negative numbers are accepted: the run goes through the gates,
\* an empty policy resolves to the limit 1, and negative values are used as
\* given by the threshold resolution.
C20_UnparsablePolicyFatal ==
    /\ (pc # "start" /\ (NotAnArray \/ NonNumericField)) => FailedInParse
    /\ (pc # "start" /\ ~(NotAnArray \/ NonNumericField)) =>
          /\ Len(inputs.policy) = Len(policyJson.rules)
          /\ \A i \in DOMAIN inputs.policy :
                /\ inputs.policy[i].minMerged = policyJson.rules[i].minMerged.num
                /\ inputs.policy[i].allowedOpen = policyJson.rules[i].allowedOpen.num
          /\ ~FailedInParse
          /\ failed # <<>> => \E i \in DOMAIN calls : calls[i].res = "error"
    /\ (FetchedOk /\ EmptyArray) =>
          /\ allowedOpen = 1
          /\ outputs["allowedOpen"] = <<"1">>
    /\ (FetchedOk /\ policyJson = JArray(<<JRule(0, 0 - 1)>>)) =>
          /\ allowedOpen = 0 - 1
          /\ outputs["allowedOpen"] = <<"-1">>
          /\ decision # <<"ok">>
    /\ (FetchedOk /\ policyJson = JArray(<<JRule(0 - 1, 1)>>)) => allowedOpen = 1

\* the second rule has a string for allowedOpen: fatal, index 1 reported
C20_Witness ==
    /\ Done
    /\ policyJson = JArray(<<JRule(0, 1), RuleStringAllowed>>)
    /\ failed = <<"Failed to parse 'policy' input: Invalid policy rule at index 1">>
    /\ decision = <<>>
    /\ calls = <<>>

\* the empty array is accepted: the limit is 1 and the run ends with ok
C20_WitnessEmpty ==
    /\ Done /\ EmptyArray /\ FetchedOk
    /\ outputs["allowedOpen"] = <<"1">>
    /\ decision = <<"ok">>
    /\ failed = <<>>

\* a negative allowedOpen is accepted and enforced
C20_WitnessNegative ==
    /\ Done /\ NegativeField /\ FetchedOk
    /\ outputs["allowedOpen"] = <<"-1">>
    /\ decision = <<"closed">>

\* the run is past the exclusions: inputs that parse, a pull-request event
\* with an author who is no bot and not on excludeUsers, a token, and a team
\* scan that is not configured or ended without an active membership
PastExclusions ==
    /\ PolicyParseError(policyJson) = "ok"
    /\ PullRequestEvent
    /\ ~BotAuthor /\ ~ListedAuthor
    /\ inputs.token # ""
    /\ IF inputs.excludeTeams = <<>> THEN pc # "start" ELSE excluded = "false"

IsFetch(i) == calls[i].api = "fetchAuthorPRCounts"

DraftGateFires == ~inputs.countDrafts /\ ctx.pr.draft

(***************************************************************************)
(* C21.  Past the exclusions, with countDrafts=false and a draft current   *)
(* PR the decision is ok, not skipped, whatever the PR state is: the draft *)
(* gate comes before the not-open gate, so a closed draft yields ok; no    *)
(* count fetch and no comment, close, revert or label call is made.  When  *)
(* the draft gate does not fire, a PR whose state is not open yields       *)
(* skipped without a count fetch.                                          *)
(***************************************************************************)
C21_DraftGateBeforeStateGate ==
    PastExclusions =>
        /\ DraftGateFires =>
              /\ Done /\ decision = <<"ok">> /\ failed = <<>>
              /\ \A i \in DOMAIN calls : ~IsFetch(i) /\ calls[i].api \notin ActionApis
        /\ (~DraftGateFires /\ ctx.pr.state # "open") =>
              /\ Done /\ decision = <<"skipped">> /\ failed = <<>>
              /\ \A i \in DOMAIN calls : ~IsFetch(i) /\ calls[i].api \notin ActionApis
        /\ (~DraftGateFires /\ ctx.pr.state = "open") =>
              \/ pc = "fetch"
              \/ \E i \in DOMAIN calls : IsFetch(i)

\* a closed draft with countDrafts=false: ok
C21_Witness ==
    /\ PastExclusions /\ Done
    /\ ~inputs.countDrafts /\ ctx.pr.draft /\ ctx.pr.state = "closed"
    /\ decision = <<"ok">>
    /\ calls = <<>>

\* a closed draft with countDrafts=true: skipped, after a team scan
C21_WitnessNotOpen ==
    /\ PastExclusions /\ Done
    /\ inputs.countDrafts /\ ctx.pr.draft /\ ctx.pr.state = "closed"
    /\ decision = <<"skipped">>
    /\ calls # <<>>

(***************************************************************************)
(* C22.  The decision closed is output only after a close call that        *)
(* succeeded in the same run, reverted_to_draft only after a revert call   *)
(* that succeeded, and ok only when no comment, close, revert or label     *)
(* call was made at all.  In the close branch the calls occur in the order *)
(* comment, then close, then label, each at most once.                     *)
(***************************************************************************)
C22_DecisionReflectsCalls ==
    /\ decision = <<"closed">> =>
          \E i \in DOMAIN calls : IsUpdate(i, "closed") /\ calls[i].res = "ok"
    /\ decision = <<"reverted_to_draft">> =>
          \E i \in DOMAIN calls : IsUpdate(i, "draft") /\ calls[i].res = "ok"
    /\ decision = <<"ok">> => NoActionCalls
    /\ \A i, j \in DOMAIN calls :
          /\ (IsComment(i) /\ calls[j].api = "pulls.update") => i < j
          /\ (IsComment(i) /\ IsLabel(j)) => i < j
          /\ (IsUpdate(i, "closed") /\ IsLabel(j)) => i < j
          /\ (calls[i].api \in ActionApis /\ calls[i].api = calls[j].api) => i = j
          /\ (IsFetch(i) /\ calls[j].api \in ActionApis) => i < j

\* the close branch in full: comment, close, label, decision closed
C22_Witness ==
    /\ Done /\ decision = <<"closed">>
    /\ \E i \in DOMAIN calls :
          /\ i + 2 = Len(calls)
          /\ IsComment(i) /\ calls[i].res = "ok"
          /\ IsUpdate(i + 1, "closed") /\ calls[i + 1].res = "ok"
          /\ IsLabel(i + 2)

\* the revert branch: the revert succeeded, decision reverted_to_draft
C22_WitnessRevert ==
    /\ Done /\ decision = <<"reverted_to_draft">>
    /\ IsUpdate(Len(calls), "draft") /\ calls[Len(calls)].res = "ok"

(***************************************************************************)
(* C23.  As claimed: the effective open count that a run outputs and       *)
(* compares with allowedOpen is never negative, for every raw open count   *)
(* >= 0 that the count fetch returns, the raw count 0 included.            *)
(***************************************************************************)
C23_EffectiveOpenNeverNegative ==
    (FetchedOk /\ openCount >= 0) =>
        /\ effectiveOpen >= 0
        /\ outputs["openCount"] # <<"-1">>

\* what the code does: the effective count is the raw count minus one, so it
\* is -1 exactly when the fetch returned 0, and never below -1
C23_EffectiveOpenAtLeastMinusOne ==
    FetchedOk =>
        /\ effectiveOpen = openCount - 1
        /\ effectiveOpen >= 0 - 1
        /\ effectiveOpen < 0 <=> openCount = 0
        /\ outputs["openCount"] = <<"-1">> <=> openCount = 0

\* raw count 0 and the limit 0: -1 is output and compared, the decision is ok
C23_Witness ==
    /\ Done /\ FetchedOk
    /\ openCount = 0 /\ allowedOpen = 0
    /\ effectiveOpen = 0 - 1
    /\ outputs["openCount"] = <<"-1">>
    /\ decision = <<"ok">>
    /\ NoActionCalls

====
